---- MODULE Spec2Model ----
(***************************************************************************)
(* Project C (top-down survival shooter) of luxa.club:                     *)
(* src/src/components/project-c/game-canvas/index.js, component GameCanvas.*)
(*                                                                         *)
(* Lengths are integers in quarter pixels (25.5 px = 102), so that every   *)
(* size, speed and threshold of the source is an integer.  Distances are   *)
(* compared by their squares.  The entities live on one horizontal line    *)
(* (every enemy is spawned on the left edge at the player's row, the       *)
(* pointer is held at the height of the player's centre), which makes      *)
(* Math.atan2 / Math.cos / Math.sin exact: the angle is 0 or pi.           *)
(*                                                                         *)
(* A React state update is followed by a render whose effects run before   *)
(* anything else happens: the handler sets pendingRender and Rerender is   *)
(* the only action enabled until it has run.                               *)
(*                                                                         *)
(* frameRef is not tracked in Spec: 300 frames separate two spawns, and    *)
(* the outcome of `frameRef.current >= enemySpawnTime` is an input of the  *)
(* frame (due).  SpawnSpec is the same component without pointer input,    *)
(* with the frame counter and the spawn interval counted as the code       *)
(* counts them, and with the unmount of the component.                     *)
(*                                                                         *)
(* AuthSpec is the request guard and the account forms:                    *)
(* src/src/utils/supabase/middleware.js, src/src/utils/supabase/actions.js,*)
(* src/src/app/account/sign-in/page.js, src/src/app/account/sign-up/page.js*)
(***************************************************************************)
EXTENDS Integers, Sequences, FiniteSets, TLC

VARIABLES
    gameStateRef,          \* gameStateRef.current
    isGamePaused,          \* useState(false)
    score,                 \* useState(0)
    showUpgrade,           \* useState(false)
    enemiesToNextUpgrade,  \* useState(10)
    mousePosition,         \* useState({x: 0, y: 0})
    keysPressed,           \* keysPressed.current: the codes held
    pendingRender,         \* "state" between a state update and its render, else "no"
    timers,                \* the pending invincibility timeouts, oldest first: for
                           \* each the number of simulation steps run since it was set
    outcome,               \* what the game-over finalizations did to the outside
    lastFrame,             \* what the last simulation step did
    selections,            \* upgrade selections since the component was mounted
    frameRef,              \* frameRef.current
    mounted,               \* the component is mounted
    auth,                  \* the last request or form submission and what it did
    probe,                 \* the last call of a function of project C on its own
    runner,                \* project A: the state, refs and cookie of its GameCanvas
    puzzle,                \* project B: the state of its GameCanvas and its module
    portalPuzzle           \* project B with lives and portals: the state of its GameCanvas

vars == <<gameStateRef, isGamePaused, score, showUpgrade, enemiesToNextUpgrade,
          mousePosition, keysPressed, pendingRender, timers, outcome,
          lastFrame, selections, frameRef, mounted, auth,
          probe, runner, puzzle, portalPuzzle>>

\* The variables of project C, and those of the other components.
cVars == <<gameStateRef, isGamePaused, score, showUpgrade, enemiesToNextUpgrade,
           mousePosition, keysPressed, pendingRender, timers, outcome,
           lastFrame, selections, frameRef, mounted>>
otherVars == <<probe, runner, puzzle, portalPuzzle>>

(***************************************************************************)
(* Bounds of the model.                                                    *)
(***************************************************************************)
MaxEnemies == 2       \* the periodic spawner stops at this many live enemies
MaxProjectiles == 1   \* a click is ignored by the model beyond this many
MaxTimerFrames == 0   \* simulation steps that run while a timeout is pending
MaxDefeated == 11     \* frames stop once this many enemies were defeated
MaxWindowFrames == 2   \* SpawnSpec: simulation steps that run while a timeout is pending
MaxSpawnTriggers == 3  \* SpawnSpec: spawn triggers of one session
Far == 160            \* a projectile further out can reach no enemy

(***************************************************************************)
(* Inputs: the canvas, the clock and Math.random().                        *)
(***************************************************************************)
DevicePixelRatio == 1
CanvasWidth == 120     \* canvas.width: 30 px
CanvasHeight == 102    \* canvas.height: 25.5 px
ElapsedSet == {50}     \* ms between two updates
SpawnSides == {2}      \* Math.floor(Math.random() * 4): the left edge
SpawnSpeeds == {3}     \* Math.random() * enemyMaxSpeed + 0.2: 0.75 px
SpawnAlong == {0}      \* Math.random() * canvasHeight
KeyCodes == {"Space"}
MouseXs == {0}
MouseYs == {51}
UpgradeTypes == {"life", "stamina", "speed", "multishot"}
UpsertResults == {"fulfilled", "rejected"}

(***************************************************************************)
(* Program constants, in quarter pixels.                                   *)
(***************************************************************************)
PlayerSize == 102          \* width: 25.5, height: 25.5
EnemySize == 82            \* width: 20.5, height: 20.5
ProjectileSize == 20       \* width: 5, height: 5
ProjectileSpeed == 40      \* speed: 10
RollSpeed == 40            \* rollSpeed: 10
PlayerSpeed == 4           \* speed: 1
SpeedUpgrade == 2          \* player.speed += 0.5
InitialLife == 3
InitialThreshold == 10     \* useState(10)
RestartEnemies == 10       \* Array(10)
MaxDeltaFrames == 6        \* Math.min(..., 0.1) * 60
SpawnOffset == 82          \* 20.5
RollUnit == 1000           \* rollDirection is kept in thousandths
InitialSpawnTime == 300    \* enemySpawnTime: 300

Max(a, b) == IF a >= b THEN a ELSE b
Min(a, b) == IF a <= b THEN a ELSE b

\* The sequence s without its i-th element (all of s when i = 0).
RemoveAt(s, i) == [k \in 1..(Len(s) - (IF i \in 1..Len(s) THEN 1 ELSE 0)) |->
                     IF i = 0 \/ k < i THEN s[k] ELSE s[k + 1]]

\* Math.hypot(dx, dy) < threshold, on integers.
HypotLess(dx, dy, threshold) == dx * dx + dy * dy < threshold * threshold

\* <<Math.cos(a), Math.sin(a)>> for a = Math.atan2(dy, dx), on the axes.
Atan2Dir(dy, dx) ==
    CASE dy = 0 /\ dx >= 0 -> [x |-> 1, y |-> 0]
      [] dy = 0 /\ dx < 0  -> [x |-> -1, y |-> 0]
      [] dx = 0 /\ dy > 0  -> [x |-> 0, y |-> 1]
      [] dx = 0 /\ dy < 0  -> [x |-> 0, y |-> -1]

OnAxis(dy, dx) == dy = 0 \/ dx = 0

\* The squared maxRollDistance: (Math.sqrt(12.75 ** 2 * 2) * 2) ** 2.
MaxRollDistanceSq == 2 * PlayerSize * PlayerSize

initializeGameState ==
    [player |-> [x |-> 0, y |-> 0, width |-> PlayerSize, height |-> PlayerSize,
                 life |-> InitialLife, stamina |-> 1, speed |-> PlayerSpeed,
                 rollCooldown |-> 1, invincible |-> FALSE, isRolling |-> FALSE,
                 rollDirection |-> [x |-> 0, y |-> 0], rollDistance |-> 0,
                 rollSpeed |-> RollSpeed, multishot |-> 1, upgrades |-> 0],
     enemies |-> <<>>,
     projectiles |-> <<>>,
     score |-> 0,
     highScore |-> 0,
     enemySpawnTime |-> [num |-> InitialSpawnTime, den |-> 1],
     enemiesDefeated |-> 0]

\* resizeCanvas: the canvas keeps its size, the player is centred when it
\* stands at the origin.
resizeCanvas(gs) ==
    IF gs.player.x = 0 /\ gs.player.y = 0
    THEN [gs EXCEPT !.player.x = CanvasWidth \div (2 * DevicePixelRatio) - PlayerSize \div 2,
                    !.player.y = CanvasHeight \div (2 * DevicePixelRatio) - PlayerSize \div 2]
    ELSE gs

\* spawnEnemy on a canvas at a device pixel ratio, with the three results
\* of Math.random() as arguments.
spawnEnemyOn(canvas, scale, side, along, speed) ==
    LET canvasWidth == canvas.width \div scale
        canvasHeight == canvas.height \div scale
        positionOptions == <<[x |-> along, y |-> -SpawnOffset],
                             [x |-> along, y |-> canvasHeight + SpawnOffset],
                             [x |-> -SpawnOffset, y |-> along],
                             [x |-> canvasWidth + SpawnOffset, y |-> along]>>
    IN  [x |-> positionOptions[side + 1].x, y |-> positionOptions[side + 1].y,
         speed |-> speed, width |-> EnemySize, height |-> EnemySize,
         struck |-> FALSE]

\* spawnEnemy on the canvas of the model.
spawnEnemy(side, along, speed) ==
    spawnEnemyOn([width |-> CanvasWidth, height |-> CanvasHeight], DevicePixelRatio,
                 side, along, speed)

NoFrame == [struckContact |-> FALSE]
NoOutcome == [gameOverRuns |-> 0, upsertArg |-> -1, unhandledRejection |-> FALSE,
              toast |-> FALSE]
NoCall == [op |-> "none"]

(***************************************************************************)
(* Project A (runner): src/src/components/project-a/game-canvas/index.js.  *)
(* Lengths and speeds are integers in hundredths of a pixel, the distance  *)
(* in units of 1 / 6,000,000 km (one frame at game speed 3 adds 300), the  *)
(* countdown is the string that is displayed ("null" for null).            *)
(***************************************************************************)
MaxRunFrames == 5     \* simulation steps between two (re)starts
MaxSessions == 2      \* page loads and restarts, the first load included
MaxItems == 1         \* coins, enemies and obstacles alive, of each kind

RunnerCanvasWidth == 12800                         \* canvas.width: 128 px
RunnerCanvasHeight == RunnerCanvasWidth \div 2     \* Math.floor(canvas.width / 2)
RunnerScale == 2                                   \* window.devicePixelRatio

RunnerX == 10000           \* player.x: 100
RunnerSize == 2550         \* width: 25.5, height: 25.5
Gravity == 50              \* gravity: 0.5
Lift == 500                \* lift: -5
CoinSize == 2050           \* width: 20.5, height: 20.5
RunnerEnemySize == 3050    \* width: 30.5, height: 30.5
ObstacleWidth == 3050      \* width: 30.5
InitialGameSpeed == 300    \* useState(3)
SpeedGain == 1             \* prev + 0.01
CoinSlowdown == 100        \* prev - 1
MinGameSpeed == 100        \* Math.max(..., 1)
EnemyExtraSpeed == 200     \* gameSpeed + 2
CoinPoints == 20           \* finalCoinsCollected * 20
DistanceUnit == 600        \* finalDistance * 1000 * 10, on the distance unit

NoStep == [ran |-> FALSE, applied |-> 0, current |-> 0]

\* What the functions of one render see of the state.
Closure(gameSpeed, bestScore) ==
    [gameSpeed |-> gameSpeed, bestScore |-> bestScore, isGameResetting |-> FALSE]

\* The component after its first render and its mount effects, on a page
\* whose cookie is `cookie` (-1: no cookie).  The countdown effect holds the
\* functions of the first render, in which bestScore is 0.
RunnerMounted(cookie, sessions) ==
    [isGameOver |-> FALSE, isGameOverRef |-> FALSE,
     coinsCollected |-> 0, coinsCollectedRef |-> 0,
     distance |-> 0, distanceRef |-> 0,
     gameSpeed |-> InitialGameSpeed,
     bestScore |-> IF cookie >= 0 THEN cookie ELSE 0,
     countdown |-> "3", isCountdownActive |-> TRUE,
     player |-> [y |-> RunnerCanvasHeight \div (2 * RunnerScale), dy |-> 0],
     coins |-> <<>>, enemies |-> <<>>, obstacles |-> <<>>,
     space |-> FALSE,
     cookie |-> IF cookie >= 0 THEN cookie ELSE 0,
     effect |-> Closure(InitialGameSpeed, 0),
     interval |-> TRUE,
     timeouts |-> <<>>,
     loops |-> <<>>,
     beepLoaded |-> FALSE,
     frames |-> 0, sessions |-> sessions, resetRuns |-> 0, upserts |-> <<>>,
     lastStep |-> NoStep]

(***************************************************************************)
(* Project B (block puzzle).  A block is its type, its solution (a         *)
(* sequence of steps: one step for a block that is not double) and its     *)
(* activated flag (FALSE for undefined).                                   *)
(***************************************************************************)
MaxPuzzleRestarts == 2    \* clicks on Restart, game-canvas/index.js
MaxPortalRestarts == 1    \* clicks on Restart, the game with lives

Blocks ==
    << [type |-> "initial", solution |-> <<1>>, activated |-> FALSE],
       [type |-> "single", solution |-> <<2>>, activated |-> FALSE],
       [type |-> "single", solution |-> <<3>>, activated |-> FALSE],
       [type |-> "double", solution |-> <<4, 9>>, activated |-> FALSE],
       [type |-> "single", solution |-> <<5>>, activated |-> FALSE],
       [type |-> "double", solution |-> <<6, 10>>, activated |-> FALSE],
       [type |-> "portal", solution |-> <<7>>, activated |-> FALSE],
       [type |-> "portal", solution |-> <<8>>, activated |-> FALSE],
       [type |-> "single", solution |-> <<11>>, activated |-> FALSE],
       [type |-> "single", solution |-> <<12>>, activated |-> FALSE],
       [type |-> "single", solution |-> <<13>>, activated |-> FALSE],
       [type |-> "final", solution |-> <<14>>, activated |-> FALSE] >>

NoClick == [index |-> 0, step |-> 0, awaiting |-> FALSE, lives |-> 0,
            accepted |-> FALSE]

\* src/src/components/project-b/game-canvas/index.js after the first
\* render: the state is the module's array initialGameState itself.
PuzzleMounted ==
    [initialGameState |-> Blocks,
     gameState |-> Blocks,
     aliased |-> TRUE,
     currentStep |-> 1,
     gameOver |-> FALSE,
     accepted |-> 0, restarts |-> 0, click |-> NoClick]

\* getInitialGameState of the game with lives (src/unnamed/part_003).
getInitialGameState ==
    [i \in 1..Len(Blocks) |->
        [type |-> Blocks[i].type, solution |-> Blocks[i].solution,
         activated |-> FALSE, partialSolution |-> <<>>]]

PortalMounted ==
    [gameState |-> getInitialGameState,
     currentStep |-> 1,
     gameOver |-> FALSE,
     lives |-> 3,
     shakeIndex |-> 0,
     awaitingPortal |-> FALSE,
     timeouts |-> 0,
     score |-> -1,
     accepted |-> 0, restarts |-> 0, click |-> NoClick]

Init ==
    /\ gameStateRef = resizeCanvas(initializeGameState)
    /\ isGamePaused = FALSE
    /\ score = 0
    /\ showUpgrade = FALSE
    /\ enemiesToNextUpgrade = InitialThreshold
    /\ mousePosition = [x |-> 0, y |-> 0]
    /\ keysPressed = {}
    /\ pendingRender = "no"
    /\ timers = <<>>
    /\ outcome = NoOutcome
    /\ lastFrame = NoFrame
    /\ selections = 0
    /\ frameRef = 0
    /\ mounted = TRUE
    /\ auth = NoCall
    /\ probe = NoCall
    /\ runner = RunnerMounted(-1, 1)
    /\ puzzle = PuzzleMounted
    /\ portalPuzzle = PortalMounted

(***************************************************************************)
(* The simulation step.                                                    *)
(***************************************************************************)
\* deltaTime * 60 for a frame `elapsed` ms after the previous one.
DeltaFrames(elapsed) == Min((elapsed * 60) \div 1000, MaxDeltaFrames)

Sat(v) == Max(-Far, Min(Far, v))

\* 1000 * Math.cos(k * 0.1) and 1000 * Math.sin(k * 0.1), rounded.
CosMilli(k) == CASE k = 0 -> 1000 [] k \in {-1, 1} -> 995 [] k \in {-2, 2} -> 980
                 [] OTHER -> 955
SinMilli(k) == CASE k = 0 -> 0 [] k = 1 -> 100 [] k = -1 -> -100 [] k = 2 -> 199
                 [] k = -2 -> -199 [] k > 2 -> 296 [] OTHER -> -296

updateRoll(player, f) ==
    IF player.isRolling
    THEN LET rollStep == player.rollSpeed * f
             moved == [player EXCEPT !.rollDistance = @ + rollStep,
                                     !.x = @ + (player.rollDirection.x * rollStep) \div RollUnit,
                                     !.y = @ + (player.rollDirection.y * rollStep) \div RollUnit]
         IN  IF moved.rollDistance * moved.rollDistance >= MaxRollDistanceSq
             THEN [moved EXCEPT !.isRolling = FALSE, !.invincible = FALSE]
             ELSE moved
    ELSE player

updateEnemies(player, enemies, f) ==
    [i \in 1..Len(enemies) |->
        LET enemy == enemies[i]
            dir == Atan2Dir(player.y - enemy.y, player.x - enemy.x)
        IN  [enemy EXCEPT !.x = @ + dir.x * enemy.speed * f,
                          !.y = @ + dir.y * enemy.speed * f]]

updateProjectiles(projectiles, f) ==
    [i \in 1..Len(projectiles) |->
        LET p == projectiles[i]
            c == p.angle.dir.x * CosMilli(p.angle.off) - p.angle.dir.y * SinMilli(p.angle.off)
            s == p.angle.dir.y * CosMilli(p.angle.off) + p.angle.dir.x * SinMilli(p.angle.off)
        IN  [p EXCEPT !.x = @ + (c * p.speed * f) \div 1000,
                      !.y = @ + (s * p.speed * f) \div 1000]]

\* The projectiles of the model stop at the distance Far.
Fence(projectiles) ==
    [i \in 1..Len(projectiles) |->
        [projectiles[i] EXCEPT !.x = Sat(@), !.y = Sat(@)]]

\* enemies.find(...) of the projectile loop: the index of the first enemy
\* within the projectile's reach, 0 when there is none.
ProjectileHit(projectile, enemies) ==
    LET within == {i \in 1..Len(enemies) :
                     HypotLess(projectile.x - (enemies[i].x + enemies[i].width \div 2),
                               projectile.y - (enemies[i].y + enemies[i].height \div 2),
                               (enemies[i].width + enemies[i].height) \div 4)}
    IN  IF within = {} THEN 0 ELSE CHOOSE i \in within : \A j \in within : i <= j

\* enemies.find(...) of the player test.
PlayerHit(player, enemies) ==
    LET within == {i \in 1..Len(enemies) :
                     HypotLess(enemies[i].x + enemies[i].width \div 2 - (player.x + player.width \div 2),
                               enemies[i].y + enemies[i].height \div 2 - (player.y + player.height \div 2),
                               (enemies[i].width + enemies[i].height + player.width + player.height) \div 4)}
    IN  IF within = {} THEN 0 ELSE CHOOSE i \in within : \A j \in within : i <= j

\* upsertScore is an async function: the call returns a promise and never
\* throws; `result` is how the promise settles.
upsertScore(result) == [threw |-> FALSE, promise |-> result]

\* A world is the part of the state a step reads and writes.
World == [gs |-> gameStateRef, isGamePaused |-> isGamePaused, score |-> score,
          showUpgrade |-> showUpgrade, timers |-> timers, outcome |-> outcome,
          lastFrame |-> lastFrame, frameRef |-> frameRef]

handlePlayerHit(w, result) ==
    LET hit == [w EXCEPT !.gs.player.life = @ - 1,
                         !.gs.player.invincible = TRUE,
                         !.timers = Append(@, 0)]
        call == upsertScore(result)
        over == [hit EXCEPT !.isGamePaused = TRUE,
                            !.outcome.gameOverRuns = @ + 1,
                            !.outcome.upsertArg = w.score,
                            !.outcome.toast = @ \/ call.threw,
                            !.outcome.unhandledRejection =
                                @ \/ (~call.threw /\ call.promise = "rejected")]
    IN  IF hit.gs.player.life <= 0
        THEN IF over.gs.score > over.gs.highScore
             THEN [over EXCEPT !.gs.highScore = over.gs.score]
             ELSE over
        ELSE hit

\* The projectile loop of checkCollisions over projectiles k..Len, on the
\* enemies as they were when checkCollisions started.
RECURSIVE ProjectileLoop(_, _, _, _)
ProjectileLoop(w, enemies, projectiles, k) ==
    IF k > Len(projectiles) THEN w
    ELSE LET hitEnemy == ProjectileHit(projectiles[k], enemies)
             defeated == w.gs.enemiesDefeated + 1
             due == defeated >= enemiesToNextUpgrade
             next == IF hitEnemy = 0 THEN w
                     ELSE [w EXCEPT !.gs.enemies = RemoveAt(enemies, hitEnemy),
                                    !.gs.enemiesDefeated = defeated,
                                    !.score = w.gs.score,
                                    !.showUpgrade = @ \/ due,
                                    !.isGamePaused = @ \/ due]
         IN  ProjectileLoop(next, enemies, projectiles, k + 1)

checkCollisions(w, result) ==
    LET player == w.gs.player
        projectiles == w.gs.projectiles
        hits == [k \in 1..Len(projectiles) |-> ProjectileHit(projectiles[k], w.gs.enemies)]
        \* the enemies as they are when checkCollisions starts; `struck`
        \* records on an enemy that a projectile has hit it
        enemies == [i \in 1..Len(w.gs.enemies) |->
                      IF \E k \in 1..Len(projectiles) : hits[k] = i
                      THEN [w.gs.enemies[i] EXCEPT !.struck = TRUE]
                      ELSE w.gs.enemies[i]]
        kept == {k \in 1..Len(projectiles) : hits[k] = 0}
        afterLoop == [ProjectileLoop(w, enemies, projectiles, 1) EXCEPT
                        !.gs.projectiles = [n \in 1..Cardinality(kept) |->
                            projectiles[CHOOSE k \in kept :
                                Cardinality({j \in kept : j <= k}) = n]]]
        hitEnemy == IF player.invincible THEN 0 ELSE PlayerHit(player, enemies)
    IN  IF hitEnemy = 0 THEN afterLoop
        ELSE [handlePlayerHit(afterLoop, result) EXCEPT
                !.gs.enemies = RemoveAt(enemies, hitEnemy),
                !.lastFrame.struckContact = enemies[hitEnemy].struck]

\* checkBoundaryCollisions without the upper bounds.
checkBoundaryLowerOnly(player) ==
    [player EXCEPT !.x = Max(0, player.x),
                   !.y = Max(0, player.y)]

checkBoundaryCollisions(player) ==
    [player EXCEPT !.x = Max(0, Min(player.x, CanvasWidth - player.width)),
                   !.y = Max(0, Min(player.y, CanvasHeight - player.height))]

updateGameState(w, elapsed, result) ==
    LET f == DeltaFrames(elapsed)
        rolled == updateRoll(w.gs.player, f)
        moved == [w EXCEPT !.gs.player = rolled,
                           !.gs.enemies = updateEnemies(rolled, w.gs.enemies, f),
                           !.gs.projectiles = Fence(updateProjectiles(w.gs.projectiles, f))]
        collided == checkCollisions(moved, result)
    IN  [collided EXCEPT !.gs.player = checkBoundaryCollisions(@)]

handlePlayerMovement(player) ==
    LET speed == player.speed
        up == IF "ArrowUp" \in keysPressed \/ "KeyW" \in keysPressed
              THEN [player EXCEPT !.y = @ - speed] ELSE player
        down == IF "ArrowDown" \in keysPressed \/ "KeyS" \in keysPressed
                THEN [up EXCEPT !.y = @ + speed] ELSE up
        left == IF "ArrowLeft" \in keysPressed \/ "KeyA" \in keysPressed
                THEN [down EXCEPT !.x = @ - speed] ELSE down
        right == IF "ArrowRight" \in keysPressed \/ "KeyD" \in keysPressed
                 THEN [left EXCEPT !.x = @ + speed] ELSE left
    IN  checkBoundaryCollisions(right)

\* enemySpawnTime *= 0.9.
DecayTenth(enemySpawnTime) == [num |-> enemySpawnTime.num * 18, den |-> enemySpawnTime.den * 20]

\* enemySpawnTime *= 0.95, on the fraction num / den.
Decay(enemySpawnTime) == [num |-> enemySpawnTime.num * 19, den |-> enemySpawnTime.den * 20]

\* One call of gameLoop: the simulation step, unless the game is paused.
\* in.due is the outcome of frameRef.current >= enemySpawnTime; the frame
\* counter and the spawn interval move when in.counted holds.
gameLoop(w, in) ==
    IF w.isGamePaused THEN w
    ELSE LET fresh == [w EXCEPT !.lastFrame = NoFrame,
                                !.timers = [i \in 1..Len(@) |-> @[i] + 1]]
             updated == updateGameState(fresh, in.elapsed, in.result)
             walked == [updated EXCEPT !.gs.player = handlePlayerMovement(@),
                                       !.score = updated.gs.score]
         IN  IF in.due
             THEN [walked EXCEPT
                     !.gs.enemies = Append(@, spawnEnemy(in.side, in.along, in.speed)),
                     !.gs.enemySpawnTime = IF in.counted THEN Decay(@) ELSE @,
                     !.frameRef = 0]
             ELSE [walked EXCEPT !.frameRef = IF in.counted THEN @ + 1 ELSE @]

FrameInputs(w) ==
    [elapsed : ElapsedSet, result : UpsertResults, side : SpawnSides,
     along : SpawnAlong, speed : SpawnSpeeds,
     due : IF Len(w.gs.enemies) < MaxEnemies THEN BOOLEAN ELSE {FALSE},
     counted : {FALSE}]

\* The outcome of `frameRef.current++; frameRef.current >= enemySpawnTime`.
SpawnDue(w) == (w.frameRef + 1) * w.gs.enemySpawnTime.den >= w.gs.enemySpawnTime.num

\* The inputs of a frame whose spawn test is the code's.
CountedInputs(w) ==
    [elapsed : ElapsedSet, result : UpsertResults, side : SpawnSides,
     along : SpawnAlong, speed : SpawnSpeeds,
     due : {SpawnDue(w)},
     counted : {TRUE}]

\* The React state that a render reads.
Rendered(w) == <<w.isGamePaused, w.score, w.showUpgrade>>

Commit(w) ==
    /\ gameStateRef' = w.gs
    /\ isGamePaused' = w.isGamePaused
    /\ score' = w.score
    /\ showUpgrade' = w.showUpgrade
    /\ timers' = w.timers
    /\ outcome' = w.outcome
    /\ lastFrame' = w.lastFrame
    /\ frameRef' = w.frameRef

\* The frame bounds of the model.
FrameAllowed ==
    /\ \A i \in 1..Len(timers) : timers[i] < MaxTimerFrames
    /\ gameStateRef.enemiesDefeated < MaxDefeated

\* The requestAnimationFrame callback.
FrameCallback ==
    /\ mounted /\ pendingRender = "no"
    /\ isGamePaused \/ FrameAllowed
    /\ \E in \in FrameInputs(World) :
         LET w == gameLoop(World, in)
         IN  /\ Commit(w)
             /\ pendingRender' = IF Rendered(w) # Rendered(World) THEN "state" ELSE "no"
    /\ UNCHANGED <<enemiesToNextUpgrade, mousePosition, keysPressed, selections,
                   mounted, auth, otherVars>>

\* The render that follows an update of isGamePaused, score or showUpgrade:
\* updateGameState and handlePlayerMovement are new functions in every
\* render, so the loop effect runs again: it cancels the pending frame and
\* calls gameLoop.
Rerender ==
    /\ mounted /\ pendingRender = "state"
    /\ isGamePaused \/ FrameAllowed
    /\ \E in \in FrameInputs(World) :
         LET w == gameLoop(World, in)
         IN  /\ Commit(w)
             /\ pendingRender' = IF Rendered(w) # Rendered(World) THEN "state" ELSE "no"
    /\ UNCHANGED <<enemiesToNextUpgrade, mousePosition, keysPressed, selections,
                   mounted, auth, otherVars>>

(***************************************************************************)
(* The handlers.                                                           *)
(***************************************************************************)
\* handleRoll; `cooled` is now - lastRollTimeRef.current > rollCooldown * 1000.
handleRoll(player, cooled) ==
    IF cooled /\ ~player.isRolling
    THEN LET rollDirectionX ==
                 IF "ArrowRight" \in keysPressed' \/ "KeyD" \in keysPressed' THEN 1
                 ELSE IF "ArrowLeft" \in keysPressed' \/ "KeyA" \in keysPressed' THEN -1
                 ELSE 0
             rollDirectionY ==
                 IF "ArrowDown" \in keysPressed' \/ "KeyS" \in keysPressed' THEN 1
                 ELSE IF "ArrowUp" \in keysPressed' \/ "KeyW" \in keysPressed' THEN -1
                 ELSE 0
             \* 1 / Math.sqrt(2) in thousandths
             unit == IF rollDirectionX # 0 /\ rollDirectionY # 0 THEN 707 ELSE RollUnit
         IN  [player EXCEPT !.isRolling = TRUE,
                            !.invincible = TRUE,
                            !.rollDistance = 0,
                            !.rollDirection = [x |-> rollDirectionX * unit,
                                               y |-> rollDirectionY * unit]]
    ELSE player

\* The keydown listener of the window, for the keys `codes`.
pressKey(codes) ==
    /\ mounted /\ pendingRender = "no"
    /\ \E code \in codes, cooled \in BOOLEAN :
         /\ keysPressed' = keysPressed \cup {code}
         /\ gameStateRef' = IF code = "Space"
                            THEN [gameStateRef EXCEPT !.player = handleRoll(@, cooled)]
                            ELSE gameStateRef
    /\ UNCHANGED <<isGamePaused, score, showUpgrade, enemiesToNextUpgrade,
                   mousePosition, pendingRender, timers, outcome, lastFrame, selections,
                   frameRef, mounted, auth, otherVars>>

handleKeyDown == pressKey(KeyCodes)

\* The keyup listener of the window.
handleKeyUp ==
    /\ mounted /\ pendingRender = "no"
    /\ \E code \in keysPressed : keysPressed' = keysPressed \ {code}
    /\ UNCHANGED <<gameStateRef, isGamePaused, score, showUpgrade, enemiesToNextUpgrade,
                   mousePosition, pendingRender, timers, outcome, lastFrame, selections,
                   frameRef, mounted, auth, otherVars>>

\* The mousemove listener of the window, with the render its state update
\* brings: setMousePosition stores a new object, so that each event renders;
\* handleShoot changes with mousePosition, the listener effect runs again
\* and calls resizeCanvas; the loop effect cancels the pending frame and
\* calls gameLoop.
handleMouseMove ==
    /\ mounted /\ pendingRender = "no"
    /\ isGamePaused \/ FrameAllowed
    /\ \E x \in MouseXs, y \in MouseYs :
         mousePosition' = [x |-> x * DevicePixelRatio, y |-> y * DevicePixelRatio]
    /\ \E in \in FrameInputs(World) :
         LET resized == [World EXCEPT !.gs = resizeCanvas(@)]
             w == gameLoop(resized, in)
         IN  /\ Commit(w)
             /\ pendingRender' = IF Rendered(w) # Rendered(resized) THEN "state" ELSE "no"
    /\ UNCHANGED <<enemiesToNextUpgrade, keysPressed, selections, mounted, auth, otherVars>>

\* The projectiles pushed by the loop of handleShoot from i on.
RECURSIVE Shots(_, _, _)
Shots(player, baseDir, i) ==
    IF i >= player.multishot THEN <<>>
    ELSE <<[x |-> player.x + player.width \div 2,
            y |-> player.y + player.height \div 2,
            angle |-> [dir |-> baseDir, off |-> i - player.multishot \div 2],
            speed |-> ProjectileSpeed,
            width |-> ProjectileSize, height |-> ProjectileSize]>>
         \o Shots(player, baseDir, i + 1)

\* The click listener of the canvas.  The overlay covers the canvas while
\* it is rendered, so a click reaches the canvas only without it.
handleShoot ==
    LET player == gameStateRef.player
        scale == DevicePixelRatio
        x == mousePosition.x * scale
        y == mousePosition.y * scale
        dy == y - (player.y + player.height \div 2) * scale
        dx == x - (player.x + player.width \div 2) * scale
    IN  /\ mounted /\ pendingRender = "no"
        /\ ~(isGamePaused \/ showUpgrade)
        /\ Len(gameStateRef.projectiles) + player.multishot <= MaxProjectiles
        /\ OnAxis(dy, dx)
        /\ gameStateRef' = [gameStateRef EXCEPT
                              !.projectiles = @ \o Shots(player, Atan2Dir(dy, dx), 0)]
        /\ UNCHANGED <<isGamePaused, score, showUpgrade, enemiesToNextUpgrade, mousePosition,
                       keysPressed, pendingRender, timers, outcome, lastFrame, selections,
                       frameRef, mounted, auth, otherVars>>

upgradeActions(player, upgradeType) ==
    CASE upgradeType = "life" -> [player EXCEPT !.life = @ + 1]
      [] upgradeType = "stamina" -> [player EXCEPT !.stamina = @ + 1]
      [] upgradeType = "speed" -> [player EXCEPT !.speed = @ + SpeedUpgrade]
      [] upgradeType = "multishot" -> [player EXCEPT !.multishot = @ + 1]

\* handleUpgrade with a threshold that grows by half its initial value.
handleUpgradeAdds ==
    /\ mounted /\ pendingRender = "no"
    /\ showUpgrade
    /\ \E upgradeType \in UpgradeTypes :
         /\ upgradeType = "multishot" => gameStateRef.player.upgrades >= 2
         /\ gameStateRef' = [gameStateRef EXCEPT
                               !.player = [upgradeActions(@, upgradeType) EXCEPT
                                             !.upgrades = @ + 1]]
    /\ enemiesToNextUpgrade' = enemiesToNextUpgrade + InitialThreshold \div 2
    /\ showUpgrade' = FALSE
    /\ isGamePaused' = FALSE
    /\ selections' = selections + 1
    /\ pendingRender' = "state"
    /\ UNCHANGED <<score, mousePosition, keysPressed, timers, outcome, lastFrame,
                   frameRef, mounted, auth, otherVars>>

\* A click on one of the upgrade buttons, which are rendered while
\* showUpgrade holds (Multishot from the second upgrade on).
handleUpgrade ==
    /\ mounted /\ pendingRender = "no"
    /\ showUpgrade
    /\ \E upgradeType \in UpgradeTypes :
         /\ upgradeType = "multishot" => gameStateRef.player.upgrades >= 2
         /\ gameStateRef' = [gameStateRef EXCEPT
                               !.player = [upgradeActions(@, upgradeType) EXCEPT
                                             !.upgrades = @ + 1]]
    /\ enemiesToNextUpgrade' = enemiesToNextUpgrade * 2
    /\ showUpgrade' = FALSE
    /\ isGamePaused' = FALSE
    /\ selections' = selections + 1
    /\ pendingRender' = "state"
    /\ UNCHANGED <<score, mousePosition, keysPressed, timers, outcome, lastFrame,
                   frameRef, mounted, auth, otherVars>>

\* restartGame without the reset of the projectiles.
restartGameKeepsProjectiles ==
    /\ mounted /\ pendingRender = "no"
    /\ isGamePaused /\ ~showUpgrade /\ gameStateRef.player.life <= 0
    /\ \E random \in [1..RestartEnemies -> SpawnSides \X SpawnAlong \X SpawnSpeeds] :
         gameStateRef' = [initializeGameState EXCEPT
                            !.projectiles = gameStateRef.projectiles,
                            !.enemies = [i \in 1..RestartEnemies |->
                                spawnEnemy(random[i][1], random[i][2], random[i][3])]]
    /\ score' = 0
    /\ isGamePaused' = FALSE
    /\ pendingRender' = "state"
    /\ outcome' = [outcome EXCEPT !.gameOverRuns = 0]
    /\ lastFrame' = NoFrame
    /\ frameRef' = 0
    /\ UNCHANGED <<showUpgrade, enemiesToNextUpgrade, mousePosition, keysPressed,
                   timers, selections, mounted, auth, otherVars>>

\* A click on Restart, which is rendered while the game is paused without
\* an upgrade choice and the player has no life left.
restartGame ==
    /\ mounted /\ pendingRender = "no"
    /\ isGamePaused /\ ~showUpgrade /\ gameStateRef.player.life <= 0
    /\ \E random \in [1..RestartEnemies -> SpawnSides \X SpawnAlong \X SpawnSpeeds] :
         gameStateRef' = [initializeGameState EXCEPT
                            !.enemies = [i \in 1..RestartEnemies |->
                                spawnEnemy(random[i][1], random[i][2], random[i][3])]]
    /\ score' = 0
    /\ isGamePaused' = FALSE
    /\ pendingRender' = "state"
    /\ outcome' = [outcome EXCEPT !.gameOverRuns = 0]
    /\ lastFrame' = NoFrame
    /\ frameRef' = 0
    /\ UNCHANGED <<showUpgrade, enemiesToNextUpgrade, mousePosition, keysPressed,
                   timers, selections, mounted, auth, otherVars>>

\* The callback of the setTimeout of handlePlayerHit.
TimerFires ==
    /\ timers # <<>>
    /\ timers' = Tail(timers)
    /\ gameStateRef' = [gameStateRef EXCEPT !.player.invincible = FALSE]
    /\ UNCHANGED <<isGamePaused, score, showUpgrade, enemiesToNextUpgrade, mousePosition,
                   keysPressed, pendingRender, outcome, lastFrame, selections,
                   frameRef, mounted, auth, otherVars>>

(***************************************************************************)
(* SpawnSpec: the frame counter and the spawn interval, and the unmount.   *)
(***************************************************************************)
\* The frame bounds of SpawnSpec.
SpawnAllowed ==
    /\ \A i \in 1..Len(timers) : timers[i] < MaxWindowFrames
    /\ SpawnDue(World) => gameStateRef.enemySpawnTime.den < 20 ^ MaxSpawnTriggers

\* The requestAnimationFrame callback, with the spawn test of the code.
SpawnFrame ==
    /\ mounted /\ pendingRender = "no"
    /\ isGamePaused \/ SpawnAllowed
    /\ \E in \in CountedInputs(World) :
         LET w == gameLoop(World, in)
         IN  /\ Commit(w)
             /\ pendingRender' = IF Rendered(w) # Rendered(World) THEN "state" ELSE "no"
    /\ UNCHANGED <<enemiesToNextUpgrade, mousePosition, keysPressed, selections,
                   mounted, auth, otherVars>>

\* The render that follows a state update, with the spawn test of the code.
SpawnRerender ==
    /\ mounted /\ pendingRender = "state"
    /\ isGamePaused \/ SpawnAllowed
    /\ \E in \in CountedInputs(World) :
         LET w == gameLoop(World, in)
         IN  /\ Commit(w)
             /\ pendingRender' = IF Rendered(w) # Rendered(World) THEN "state" ELSE "no"
    /\ UNCHANGED <<enemiesToNextUpgrade, mousePosition, keysPressed, selections,
                   mounted, auth, otherVars>>

\* The component is unmounted: the cleanups of the effects cancel the
\* pending frame and remove the listeners.
Unmount ==
    /\ mounted /\ pendingRender = "no"
    /\ mounted' = FALSE
    /\ UNCHANGED <<gameStateRef, isGamePaused, score, showUpgrade, enemiesToNextUpgrade,
                   mousePosition, keysPressed, pendingRender, timers, outcome,
                   lastFrame, selections, frameRef, auth, otherVars>>

SpawnNext ==
    \/ SpawnFrame
    \/ SpawnRerender
    \/ handleKeyDown
    \/ restartGame
    \/ TimerFires
    \/ Unmount

SpawnSpec == Init /\ [][SpawnNext]_vars

(***************************************************************************)
(* AuthSpec: the request guard and the account forms.  A string is the     *)
(* sequence of its characters.                                             *)
(***************************************************************************)
gameVars == <<cVars, otherVars>>

MinPassword == 6    \* z.string().min(6)
MinUsername == 3    \* z.string().min(3)

AccountPrefix == <<"/", "a", "c", "c", "o", "u", "n", "t">>
SignInPath == AccountPrefix \o <<"/", "s", "i", "g", "n", "-", "i", "n">>

\* request.nextUrl.pathname
Pathnames ==
    {<<"/">>,
     <<"/", "a">>,
     <<"/", "a", "c", "c", "o", "u", "n">>,
     AccountPrefix,
     AccountPrefix \o <<"s">>,
     AccountPrefix \o <<"/">>,
     SignInPath,
     AccountPrefix \o <<"/", "s", "i", "g", "n", "-", "u", "p">>,
     <<"/", "x">> \o AccountPrefix,
     <<"/", "p", "r", "o", "j", "e", "c", "t", "-", "c">>}

\* The e-mail addresses typed into the forms.
Emails ==
    {<<>>,
     <<"a">>,
     <<"a", "@", "a">>,
     <<"a", "@", "a", ".", "a">>,
     <<"a", "@", "a", ".", "a", "a">>,
     <<"a", ".", "a", "@", "a", ".", "a", ".", "a", "a">>,
     <<".", "a", "@", "a", ".", "a", "a">>,
     <<"a", ".", "@", "a", ".", "a", "a">>,
     <<"a", ".", ".", "a", "@", "a", ".", "a", "a">>,
     <<"a", "@", "@", "a", ".", "a", "a">>,
     <<"a", "@", ".", "a", "a">>,
     <<"a", "@", "a", ".", ".", "a", "a">>}

\* A string of n characters.
Typed(n) == [i \in 1..n |-> "p"]
Passwords == {Typed(n) : n \in {0, 5, 6, 7}}
Usernames == {Typed(n) : n \in {0, 2, 3, 4}}
BackendResults == {"ok", "error"}      \* the { error } of the auth backend
Transports == {"returns", "throws"}    \* the call of the server action

\* A test for the whole string in the place of startsWith.
StartsWithWhole(str, prefix) ==
    str = prefix

\* String.prototype.startsWith
StartsWith(str, prefix) ==
    /\ Len(str) >= Len(prefix)
    /\ SubSeq(str, 1, Len(prefix)) = prefix

\* updateSession with a redirect for every request without a user.
updateSessionAnyPath(pathname, user, cookiesToSet) ==
    IF user = "none"
    THEN [kind |-> "redirect", pathname |-> SignInPath, cookies |-> FALSE]
    ELSE [kind |-> "next", pathname |-> pathname, cookies |-> cookiesToSet]

\* updateSession: `user` is the user of supabase.auth.getUser(),
\* cookiesToSet tells whether getUser has called setAll, which replaces
\* supabaseResponse by a response that carries the cookies.
updateSession(pathname, user, cookiesToSet) ==
    IF user = "none" /\ ~StartsWith(pathname, AccountPrefix)
    THEN [kind |-> "redirect", pathname |-> SignInPath, cookies |-> FALSE]
    ELSE [kind |-> "next", pathname |-> pathname, cookies |-> cookiesToSet]

\* z.string().email(): /^(?!\.)(?!.*\.\.)([A-Z0-9_'+\-\.]*)[A-Z0-9_+-]@
\* ([A-Z0-9][A-Z0-9\-]*\.)+[A-Z]{2,}$/i, on the letters, "." and "@".
Email(str) ==
    LET ats == {i \in 1..Len(str) : str[i] = "@"}
        at == CHOOSE i \in ats : TRUE
        dots == {i \in (at + 1)..Len(str) : str[i] = "."}
        lastDot == CHOOSE i \in dots : \A j \in dots : j <= i
    IN  /\ Cardinality(ats) = 1
        /\ str[1] # "."
        /\ \A i \in 1..(Len(str) - 1) : ~(str[i] = "." /\ str[i + 1] = ".")
        /\ at > 1 /\ str[at - 1] # "."
        /\ at < Len(str) /\ str[at + 1] # "."
        /\ dots # {}
        /\ Len(str) - lastDot >= 2

\* schema.safeParse: the messages of the errors, in the order of the keys.
signInErrors(data) ==
    (IF Email(data.email) THEN <<>> ELSE <<"Invalid email address">>)
    \o (IF Len(data.password) >= MinPassword THEN <<>>
        ELSE <<"Password must be at least 6 characters long">>)

signUpErrors(data) ==
    (IF Len(data.username) >= MinUsername THEN <<>>
     ELSE <<"Username must be at least 3 characters long">>)
    \o signInErrors(data)

\* signIn without the validation.
signInUnchecked(data, backend) ==
    IF backend = "error"
    THEN [error |-> <<"Failed to sign in. Please check your credentials.">>,
          success |-> <<>>, backendCalls |-> 1]
    ELSE [error |-> <<>>, success |-> <<"Hey there! Welcome back.">>, backendCalls |-> 1]

\* The server action signIn: what it returns and how often it has called
\* supabase.auth.signInWithPassword; `backend` is the answer of that call.
signIn(data, backend) ==
    IF signInErrors(data) # <<>>
    THEN [error |-> signInErrors(data), success |-> <<>>, backendCalls |-> 0]
    ELSE IF backend = "error"
    THEN [error |-> <<"Failed to sign in. Please check your credentials.">>,
          success |-> <<>>, backendCalls |-> 1]
    ELSE [error |-> <<>>, success |-> <<"Hey there! Welcome back.">>, backendCalls |-> 1]

\* The server action signUp.
signUp(data, backend) ==
    IF signUpErrors(data) # <<>>
    THEN [error |-> signUpErrors(data), success |-> <<>>, backendCalls |-> 0]
    ELSE IF backend = "error"
    THEN [error |-> <<"Failed to sign up. Please try again.">>,
          success |-> <<>>, backendCalls |-> 1]
    ELSE [error |-> <<>>, success |-> <<"Account created successfully!">>, backendCalls |-> 1]

\* The middleware of the application on a request.
middleware ==
    /\ \E pathname \in Pathnames, user \in {"none", "user"}, cookiesToSet \in BOOLEAN :
         auth' = [op |-> "updateSession", pathname |-> pathname, user |-> user,
                  cookiesToSet |-> cookiesToSet,
                  response |-> updateSession(pathname, user, cookiesToSet)]
    /\ UNCHANGED gameVars

\* A call of the server action signIn.
signInAction ==
    /\ \E email \in Emails, password \in Passwords, backend \in BackendResults :
         LET data == [email |-> email, password |-> password]
             result == signIn(data, backend)
         IN  auth' = [op |-> "signIn", data |-> data, backend |-> backend,
                      backendCalls |-> result.backendCalls,
                      error |-> result.error, success |-> result.success]
    /\ UNCHANGED gameVars

\* A call of the server action signUp.
signUpAction ==
    /\ \E email \in Emails, password \in Passwords, username \in Usernames,
          backend \in BackendResults :
         LET data == [email |-> email, password |-> password, username |-> username]
             result == signUp(data, backend)
         IN  auth' = [op |-> "signUp", data |-> data, backend |-> backend,
                      backendCalls |-> result.backendCalls,
                      error |-> result.error, success |-> result.success]
    /\ UNCHANGED gameVars

\* handleSubmit of the sign-in page; toasts are the notifications shown.
signInSubmit ==
    /\ \E email \in Emails, password \in Passwords, backend \in BackendResults,
          transport \in Transports :
         LET formData == [email |-> email, password |-> password]
             result == signIn(formData, backend)
         IN  auth' = [op |-> "signInSubmit", data |-> formData, backend |-> backend,
                      transport |-> transport,
                      backendCalls |-> IF signInErrors(formData) # <<>> \/ transport = "throws"
                                       THEN 0 ELSE result.backendCalls,
                      toasts |-> IF signInErrors(formData) # <<>> THEN signInErrors(formData)
                                 ELSE IF transport = "throws"
                                 THEN <<"Failed to sign in. Please check your credentials.">>
                                 ELSE <<>>]
    /\ UNCHANGED gameVars

\* handleSubmit of the sign-up page.
signUpSubmit ==
    /\ \E email \in Emails, password \in Passwords, username \in Usernames,
          backend \in BackendResults, transport \in Transports :
         LET formData == [email |-> email, password |-> password, username |-> username]
             result == signUp(formData, backend)
         IN  auth' = [op |-> "signUpSubmit", data |-> formData, backend |-> backend,
                      transport |-> transport,
                      backendCalls |-> IF signUpErrors(formData) # <<>> \/ transport = "throws"
                                       THEN 0 ELSE result.backendCalls,
                      toasts |-> IF signUpErrors(formData) # <<>> THEN signUpErrors(formData)
                                 ELSE IF transport = "throws"
                                 THEN <<"Failed to sign up. Please try again.">>
                                 ELSE IF result.success # <<>> THEN result.success
                                 ELSE result.error]
    /\ UNCHANGED gameVars

AuthNext ==
    \/ middleware
    \/ signInAction
    \/ signUpAction
    \/ signInSubmit
    \/ signUpSubmit

AuthSpec == Init /\ [][AuthNext]_vars

(***************************************************************************)
(* KinematicsSpec: spawnEnemy and the motion of a simulation step, each    *)
(* called on its own; the canvas, the device pixel ratio, the clock and    *)
(* Math.random() are the inputs.                                           *)
(***************************************************************************)
MaxSpan == 200    \* ms followed from the start of a motion

\* canvas.width and canvas.height, in quarter pixels
Canvases == {[width |-> 120, height |-> 102],
             [width |-> 240, height |-> 204],
             [width |-> 400, height |-> 300]}
Scales == {1, 2}                  \* window.devicePixelRatio
Sides == 0..3                     \* Math.floor(Math.random() * 4)
RandomPercents == {0, 50, 99}     \* Math.random(), in hundredths
EnemySpeeds == {1, 2, 3}          \* Math.random() * enemyMaxSpeed + 0.2
StepMillis == {50, 100, 150, 200} \* now - lastUpdateTimeRef.current
Directions == {[x |-> 1, y |-> 0], [x |-> -1, y |-> 0],
               [x |-> 0, y |-> 1], [x |-> 0, y |-> -1]}

\* A call of spawnEnemy.
spawnEnemyCall ==
    /\ \E canvas \in Canvases, scale \in Scales, side \in Sides,
          random \in RandomPercents, speed \in EnemySpeeds :
         LET length == IF side \in {0, 1} THEN canvas.width \div scale
                       ELSE canvas.height \div scale
         IN  probe' = [op |-> "spawnEnemy", canvas |-> canvas, scale |-> scale,
                       side |-> side,
                       enemy |-> spawnEnemyOn(canvas, scale, side,
                                              (random * length) \div 100, speed)]
    /\ UNCHANGED <<cVars, auth, runner, puzzle, portalPuzzle>>

\* The projectile of a click of the player of a fresh session, and an enemy
\* spawned on the left edge at the player's row.
MotionStart(dir) ==
    [op |-> "motion", span |-> 0, steps |-> 0,
     player |-> resizeCanvas(initializeGameState).player,
     projectile |-> Shots(resizeCanvas(initializeGameState).player, dir, 0)[1],
     enemy |-> spawnEnemy(2, 0, 3),
     from |-> [projectile |-> Shots(resizeCanvas(initializeGameState).player, dir, 0)[1],
               enemy |-> spawnEnemy(2, 0, 3)]]

\* The motion of one call of updateGameState, `elapsed` ms after the
\* previous one, on a projectile and on an enemy; the player stands still.
motionCall ==
    /\ \E elapsed \in StepMillis, dir \in Directions :
         LET m == IF probe.op = "motion" /\ probe.span + elapsed <= MaxSpan
                  THEN probe ELSE MotionStart(dir)
             f == DeltaFrames(elapsed)
         IN  probe' = [m EXCEPT
                         !.span = @ + elapsed,
                         !.steps = @ + 1,
                         !.projectile = updateProjectiles(<<@>>, f)[1],
                         !.enemy = updateEnemies(m.player, <<@>>, f)[1]]
    /\ UNCHANGED <<cVars, auth, runner, puzzle, portalPuzzle>>

KinematicsNext ==
    \/ spawnEnemyCall
    \/ motionCall

KinematicsSpec == Init /\ [][KinematicsNext]_vars

(***************************************************************************)
(* RollSpec: the player alone in the frames before the first spawn, with   *)
(* the movement keys.                                                      *)
(***************************************************************************)
MoveCodes == {"Space", "ArrowLeft", "ArrowRight", "ArrowUp", "ArrowDown"}

\* The inputs of a frame in which no spawn is due.
QuietInputs ==
    [elapsed : ElapsedSet, result : UpsertResults, side : SpawnSides,
     along : SpawnAlong, speed : SpawnSpeeds, due : {FALSE}, counted : {FALSE}]

\* The requestAnimationFrame callback in a frame without a spawn.
RollFrame ==
    /\ mounted /\ pendingRender = "no"
    /\ \E in \in QuietInputs :
         LET w == gameLoop(World, in)
         IN  /\ Commit(w)
             /\ pendingRender' = IF Rendered(w) # Rendered(World) THEN "state" ELSE "no"
    /\ UNCHANGED <<enemiesToNextUpgrade, mousePosition, keysPressed, selections,
                   mounted, auth, otherVars>>

RollKeyDown == pressKey(MoveCodes)

RollNext ==
    \/ RollFrame
    \/ RollKeyDown
    \/ handleKeyUp

RollSpec == Init /\ [][RollNext]_vars

(***************************************************************************)
(* RunnerSpec: project A.  The state updates of a handler are applied, and *)
(* the effects of the render they bring are run, before anything else      *)
(* happens; an updater function runs in that render.  frameCount is not    *)
(* tracked: which of the spawn tests `frameCount % RATE === 0` hold is an  *)
(* input of the frame (400 and 600 are multiples of 200).                  *)
(***************************************************************************)
CoinYs == {1000}       \* Math.random() * (canvas.height - 50)
RunnerEnemyYs == {0}   \* Math.random() * canvas.height
\* isTop and Math.random() * (canvas.height - 200) + 50
ObstacleKinds == {[isTop |-> TRUE, height |-> 5000],
                  [isTop |-> FALSE, height |-> 5000],
                  [isTop |-> TRUE, height |-> -1800]}

RunnerInputs(r) ==
    {in \in [coin : BOOLEAN, enemy : BOOLEAN, obstacle : BOOLEAN,
             coinY : CoinYs, enemyY : RunnerEnemyYs, kind : ObstacleKinds] :
        /\ in.coin => in.obstacle /\ Len(r.coins) < MaxItems
        /\ in.enemy => in.obstacle /\ Len(r.enemies) < MaxItems
        /\ in.obstacle => Len(r.obstacles) < MaxItems}

\* The overlap test of checkCollisions.
Overlaps(player, entity) ==
    /\ RunnerX < entity.x + entity.width
    /\ RunnerX + RunnerSize > entity.x
    /\ player.y < entity.y + entity.height
    /\ player.y + RunnerSize > entity.y

updateEntities(entities, speed) ==
    SelectSeq([i \in 1..Len(entities) |-> [entities[i] EXCEPT !.x = @ - speed]],
              LAMBDA entity : ~(entity.x + entity.width < 0))

\* resetGame as the function of the render `c`.
resetGame(r, c) ==
    LET finalDistance == r.distanceRef
        finalCoinsCollected == r.coinsCollectedRef
        finalScore == finalDistance \div DistanceUnit + finalCoinsCollected * CoinPoints
        best == finalScore > c.bestScore
    IN  [r EXCEPT !.upserts = Append(@, finalScore),
                  !.resetRuns = @ + 1,
                  !.bestScore = IF best THEN finalScore ELSE @,
                  !.cookie = IF best THEN finalScore ELSE @,
                  !.coinsCollected = 0, !.coinsCollectedRef = 0,
                  !.distance = 0, !.distanceRef = 0,
                  !.gameSpeed = InitialGameSpeed,
                  !.isGameOver = TRUE]

updatePlayer(r, c) ==
    LET lifted == IF r.space THEN -Lift ELSE r.player.dy
        dy == lifted + Gravity
        y == r.player.y + dy
        flown == [r EXCEPT !.player = [y |-> y, dy |-> dy]]
    IN  IF (y + RunnerSize > RunnerCanvasHeight \/ y < 0) /\ ~c.isGameResetting
        THEN resetGame(flown, c)
        ELSE flown

\* setGameSpeed((prev) => Math.max(prev - 1, 1)), n times.
RECURSIVE Slowed(_, _)
Slowed(gameSpeed, n) ==
    IF n = 0 THEN gameSpeed
    ELSE Slowed(Max(gameSpeed - CoinSlowdown, MinGameSpeed), n - 1)

\* checkCollisions as the function of the render `c`: the state after it,
\* and the value the updaters of setCoinsCollected will store in
\* coinsCollectedRef when they run (-1: no coin).
runnerCheckCollisions(r, c) ==
    LET taken == {i \in 1..Len(r.coins) : Overlaps(r.player, r.coins[i])}
        picked == [r EXCEPT
                     !.coins = SelectSeq(@, LAMBDA coin : ~Overlaps(r.player, coin)),
                     !.coinsCollected = @ + Cardinality(taken),
                     !.gameSpeed = Slowed(@, Cardinality(taken))]
        coinRef == IF taken = {} THEN -1 ELSE picked.coinsCollected
    IN  IF \E i \in 1..Len(r.obstacles) : Overlaps(r.player, r.obstacles[i])
        THEN [r |-> IF c.isGameResetting THEN r ELSE resetGame(r, c), coinRef |-> -1]
        ELSE IF \E i \in 1..Len(r.enemies) : Overlaps(r.player, r.enemies[i])
        THEN [r |-> IF c.isGameResetting THEN picked ELSE resetGame(picked, c),
              coinRef |-> coinRef]
        ELSE [r |-> picked, coinRef |-> coinRef]

spawnCoin(r, y) ==
    [r EXCEPT !.coins = Append(@, [x |-> RunnerCanvasWidth, y |-> y,
                                   width |-> CoinSize, height |-> CoinSize])]

runnerSpawnEnemy(r, y) ==
    [r EXCEPT !.enemies = Append(@, [x |-> RunnerCanvasWidth, y |-> y,
                                     width |-> RunnerEnemySize,
                                     height |-> RunnerEnemySize])]

spawnObstacle(r, kind) ==
    [r EXCEPT !.obstacles = Append(@, [x |-> RunnerCanvasWidth,
                                       y |-> IF kind.isTop THEN 0
                                             ELSE RunnerCanvasHeight - kind.height,
                                       width |-> ObstacleWidth,
                                       height |-> kind.height])]

\* The render that follows a handler: the effect that copies isGameOver to
\* its ref, and the countdown effect when isCountdownActive has changed.
RunnerRender(before, r) ==
    LET synced == [r EXCEPT !.isGameOverRef = r.isGameOver]
    IN  IF before.isCountdownActive = r.isCountdownActive THEN synced
        ELSE IF r.isCountdownActive
        THEN [synced EXCEPT !.effect = Closure(r.gameSpeed, r.bestScore),
                            !.interval = TRUE]
        ELSE [synced EXCEPT !.interval = FALSE]

\* One call of startGameLoop as the function of the render `c`, before the
\* render: the game is not over.
startGameLoop(r, c, in) ==
    LET moved == [r EXCEPT !.coins = updateEntities(@, c.gameSpeed),
                           !.enemies = updateEntities(@, c.gameSpeed + EnemyExtraSpeed),
                           !.obstacles = updateEntities(@, c.gameSpeed)]
        flown == updatePlayer(moved, c)
        collided == runnerCheckCollisions(flown, c)
        counted == [collided.r EXCEPT
                      !.distance = @ + c.gameSpeed,
                      !.distanceRef = collided.r.distance + c.gameSpeed,
                      !.coinsCollectedRef = IF collided.coinRef >= 0
                                            THEN collided.coinRef ELSE @,
                      !.frames = @ + 1]
        coined == IF in.coin THEN spawnCoin(counted, in.coinY) ELSE counted
        enemied == IF in.enemy THEN runnerSpawnEnemy(coined, in.enemyY) ELSE coined
        spawned == IF in.obstacle THEN spawnObstacle(enemied, in.kind) ELSE enemied
    IN  [spawned EXCEPT !.gameSpeed = @ + SpeedGain,
                        !.lastStep = [ran |-> TRUE, applied |-> c.gameSpeed,
                                      current |-> r.gameSpeed]]

RunnerUnchanged == UNCHANGED <<cVars, auth, probe, puzzle, portalPuzzle>>

\* The callback of setInterval of the countdown effect, with its updater.
\* A pending timeout of 500 ms fires before the next tick of 1000 ms.
countdownTick ==
    /\ runner.interval /\ runner.timeouts = <<>>
    /\ runner' = [(CASE runner.countdown = "3" -> [runner EXCEPT !.countdown = "2"]
                     [] runner.countdown = "2" -> [runner EXCEPT !.countdown = "1"]
                     [] runner.countdown = "1" -> [runner EXCEPT !.countdown = "GO!"]
                     [] runner.countdown = "GO!" ->
                            [runner EXCEPT !.interval = FALSE,
                                           !.timeouts = Append(@, runner.effect)]
                     [] OTHER -> runner)
                  EXCEPT !.lastStep = NoStep]
    /\ RunnerUnchanged

\* The callback of setTimeout(startGame, 500).
startGame ==
    /\ runner.timeouts # <<>>
    /\ \E in \in RunnerInputs(runner) :
         LET c == Head(runner.timeouts)
             started == [runner EXCEPT !.timeouts = Tail(@),
                                       !.countdown = "null",
                                       !.isCountdownActive = FALSE,
                                       !.player.dy = -Lift]
         IN  runner' = RunnerRender(runner,
                          IF started.isGameOverRef
                          THEN [started EXCEPT !.lastStep = NoStep]
                          ELSE [startGameLoop(started, c, in) EXCEPT
                                  !.loops = Append(@, c)])
    /\ RunnerUnchanged

\* The requestAnimationFrame callback of one of the loops.
runnerFrame ==
    /\ \E i \in 1..Len(runner.loops), in \in RunnerInputs(runner) :
         /\ runner.isGameOverRef \/ runner.frames < MaxRunFrames
         /\ runner' = RunnerRender(runner,
                         IF runner.isGameOverRef
                         THEN [runner EXCEPT !.loops = RemoveAt(@, i),
                                             !.lastStep = NoStep]
                         ELSE startGameLoop(runner, runner.loops[i], in))
    /\ RunnerUnchanged

\* The keydown and touchstart listeners, for the space bar.
runnerHandleKeyDown ==
    /\ ~runner.space
    /\ runner' = [runner EXCEPT !.space = TRUE, !.lastStep = NoStep]
    /\ RunnerUnchanged

\* The keyup and touchend listeners.
runnerHandleKeyUp ==
    /\ runner.space
    /\ runner' = [runner EXCEPT !.space = FALSE, !.lastStep = NoStep]
    /\ RunnerUnchanged

\* A click on Restart, which is rendered while isGameOver holds.
runnerRestartGame ==
    /\ runner.isGameOver
    /\ runner.sessions < MaxSessions
    /\ runner' = RunnerRender(runner,
                    [runner EXCEPT !.isGameOver = FALSE,
                                   !.isGameOverRef = FALSE,
                                   !.coinsCollected = 0, !.coinsCollectedRef = 0,
                                   !.distance = 0, !.distanceRef = 0,
                                   !.gameSpeed = InitialGameSpeed,
                                   !.coins = <<>>, !.enemies = <<>>, !.obstacles = <<>>,
                                   !.player = [y |-> RunnerCanvasHeight \div 2, dy |-> 0],
                                   !.countdown = "3",
                                   !.isCountdownActive = TRUE,
                                   !.frames = 0, !.sessions = @ + 1,
                                   !.resetRuns = 0, !.upserts = <<>>,
                                   !.lastStep = NoStep])
    /\ RunnerUnchanged

\* The page is loaded again: the component is mounted anew, the cookie is
\* what the page before has left.
PageLoad ==
    /\ runner.sessions < MaxSessions
    /\ runner' = RunnerMounted(runner.cookie, runner.sessions + 1)
    /\ RunnerUnchanged

\* use-sound has loaded the beep: playBeep is a new function, and the
\* countdown effect, which depends on it, runs again with the functions of
\* the current render.
soundLoaded ==
    /\ ~runner.beepLoaded
    /\ runner' = [(IF runner.isCountdownActive
                   THEN [runner EXCEPT !.effect = Closure(runner.gameSpeed, runner.bestScore),
                                       !.interval = TRUE]
                   ELSE runner)
                  EXCEPT !.beepLoaded = TRUE, !.lastStep = NoStep]
    /\ RunnerUnchanged

RunnerNext ==
    \/ countdownTick
    \/ startGame
    \/ runnerFrame
    \/ runnerHandleKeyDown
    \/ runnerHandleKeyUp
    \/ runnerRestartGame
    \/ PageLoad
    \/ soundLoaded

RunnerSpec == Init /\ [][RunnerNext]_vars

(***************************************************************************)
(* PuzzleSpec: src/src/components/project-b/game-canvas/index.js.  The     *)
(* handlers change the block objects in place; until the first restart     *)
(* these are the objects of the module's initialGameState.                 *)
(***************************************************************************)
Contains(solution, step) == \E i \in 1..Len(solution) : solution[i] = step

Without(solution, step) == SelectSeq(solution, LAMBDA s : s # step)

\* An assignment to a field of gameState[index].
Mutated(p, index, block) ==
    [p EXCEPT !.gameState[index] = block,
              !.initialGameState[index] = IF p.aliased THEN block ELSE @]

handleDoubleClick(p, index) ==
    LET block == p.gameState[index]
        left == Without(block.solution, p.currentStep)
    IN  IF Contains(block.solution, p.currentStep)
        THEN [Mutated(p, index, [block EXCEPT !.solution = left,
                                              !.activated = IF left = <<>> THEN TRUE
                                                            ELSE @])
                EXCEPT !.currentStep = @ + 1, !.accepted = @ + 1]
        ELSE [p EXCEPT !.gameOver = TRUE]

handleSingleClick(p, index) ==
    LET block == p.gameState[index]
    IN  IF p.currentStep = block.solution[1]
        THEN [Mutated(p, index, [block EXCEPT !.activated = TRUE])
                EXCEPT !.currentStep = @ + 1, !.accepted = @ + 1]
        ELSE [p EXCEPT !.gameOver = TRUE]

handleClick(p, index) ==
    IF p.gameState[index].type = "double"
    THEN handleDoubleClick(p, index)
    ELSE handleSingleClick(p, index)

PuzzleUnchanged == UNCHANGED <<cVars, auth, probe, runner, portalPuzzle>>

puzzleClick ==
    /\ ~puzzle.gameOver
    /\ \E index \in 1..Len(Blocks) :
         LET clicked == handleClick(puzzle, index)
         IN  puzzle' = [clicked EXCEPT
                          !.click = [NoClick EXCEPT
                                       !.index = index,
                                       !.step = puzzle.currentStep,
                                       !.accepted = clicked.currentStep # puzzle.currentStep]]
    /\ PuzzleUnchanged

puzzleRestartGame ==
    /\ puzzle.gameOver
    /\ puzzle.restarts < MaxPuzzleRestarts
    /\ puzzle' = [puzzle EXCEPT
                    !.gameState = [i \in 1..Len(Blocks) |->
                                     [puzzle.initialGameState[i] EXCEPT !.activated = FALSE]],
                    !.aliased = FALSE,
                    !.currentStep = 1,
                    !.gameOver = FALSE,
                    !.accepted = 0, !.restarts = @ + 1, !.click = NoClick]
    /\ PuzzleUnchanged

PuzzleNext == puzzleClick \/ puzzleRestartGame

PuzzleSpec == Init /\ [][PuzzleNext]_vars

(***************************************************************************)
(* PortalSpec: the game with lives and portals, src/unnamed/part_003       *)
(* (second component).  shakeIndex 0 is null; timeouts counts the pending  *)
(* timeouts of handleIncorrectStep, score is the last score sent (-1:      *)
(* none).                                                                  *)
(***************************************************************************)
\* handleIncorrectStep without the game over at the last life.
handleIncorrectStepNoGameOver(p, index) ==
    [p EXCEPT !.lives = @ - 1,
              !.shakeIndex = index,
              !.timeouts = @ + 1]

handleIncorrectStep(p, index) ==
    [p EXCEPT !.lives = @ - 1,
              !.gameOver = IF p.lives - 1 <= 0 THEN TRUE ELSE @,
              !.shakeIndex = index,
              !.timeouts = @ + 1]

portalHandleDoubleClick(p, index) ==
    LET block == p.gameState[index]
        left == Without(block.solution, p.currentStep)
    IN  IF Contains(block.solution, p.currentStep)
        THEN [p EXCEPT !.gameState[index] =
                          [block EXCEPT !.solution = left,
                                        !.partialSolution = Append(@, p.currentStep),
                                        !.activated = IF left = <<>> THEN TRUE ELSE @],
                       !.currentStep = @ + 1, !.accepted = @ + 1]
        ELSE handleIncorrectStep(p, index)

portalHandleSingleClick(p, index) ==
    LET block == p.gameState[index]
    IN  IF p.currentStep = block.solution[1]
        THEN [p EXCEPT !.gameState[index].activated = TRUE,
                       !.currentStep = @ + 1, !.accepted = @ + 1,
                       !.score = IF block.type = "final"
                                 THEN 300 - (3 - p.lives) * 100 ELSE @,
                       !.gameOver = IF block.type = "final" THEN TRUE ELSE @]
        ELSE handleIncorrectStep(p, index)

handlePortalClickNoWait(p, index) ==
    LET block == p.gameState[index]
    IN  IF p.currentStep = block.solution[1]
        THEN [p EXCEPT !.gameState[index].activated = TRUE,
                       !.currentStep = @ + 1, !.accepted = @ + 1,
                       !.awaitingPortal = FALSE]
        ELSE handleIncorrectStep(p, index)

handlePortalClick(p, index) ==
    LET block == p.gameState[index]
    IN  IF p.awaitingPortal
        THEN IF p.currentStep = block.solution[1]
             THEN [p EXCEPT !.gameState[index].activated = TRUE,
                            !.currentStep = @ + 1, !.accepted = @ + 1,
                            !.awaitingPortal = FALSE]
             ELSE handleIncorrectStep(p, index)
        ELSE IF p.currentStep = block.solution[1]
             THEN [p EXCEPT !.gameState[index].activated = TRUE,
                            !.currentStep = @ + 1, !.accepted = @ + 1,
                            !.awaitingPortal = TRUE]
             ELSE handleIncorrectStep(p, index)

portalHandleClick(p, index) ==
    LET block == p.gameState[index]
    IN  IF p.awaitingPortal /\ block.type # "portal"
        THEN handleIncorrectStep(p, index)
        ELSE CASE block.type = "double" -> portalHandleDoubleClick(p, index)
               [] block.type = "portal" -> handlePortalClick(p, index)
               [] OTHER -> portalHandleSingleClick(p, index)

PortalUnchanged == UNCHANGED <<cVars, auth, probe, runner, puzzle>>

portalClick ==
    /\ ~portalPuzzle.gameOver
    /\ \E index \in 1..Len(Blocks) :
         LET clicked == portalHandleClick(portalPuzzle, index)
         IN  portalPuzzle' =
               [clicked EXCEPT
                  !.click = [index |-> index,
                             step |-> portalPuzzle.currentStep,
                             awaiting |-> portalPuzzle.awaitingPortal,
                             lives |-> portalPuzzle.lives,
                             accepted |-> clicked.currentStep # portalPuzzle.currentStep]]
    /\ PortalUnchanged

portalRestartGame ==
    /\ portalPuzzle.gameOver
    /\ portalPuzzle.restarts < MaxPortalRestarts
    /\ portalPuzzle' = [portalPuzzle EXCEPT
                          !.gameState = getInitialGameState,
                          !.currentStep = 1,
                          !.gameOver = FALSE,
                          !.lives = 3,
                          !.shakeIndex = 0,
                          !.awaitingPortal = FALSE,
                          !.accepted = 0, !.restarts = @ + 1, !.click = NoClick]
    /\ PortalUnchanged

\* The callback of the setTimeout of handleIncorrectStep.
shakeTimeout ==
    /\ portalPuzzle.timeouts > 0
    /\ portalPuzzle' = [portalPuzzle EXCEPT !.shakeIndex = 0, !.timeouts = @ - 1]
    /\ PortalUnchanged

\* The callback of the timer of the shakeIndex effect, which is pending
\* while shakeIndex is not null.
shakeEffectTimeout ==
    /\ portalPuzzle.shakeIndex # 0
    /\ portalPuzzle' = [portalPuzzle EXCEPT !.shakeIndex = 0]
    /\ PortalUnchanged

PortalNext ==
    \/ portalClick
    \/ portalRestartGame
    \/ shakeTimeout
    \/ shakeEffectTimeout

PortalSpec == Init /\ [][PortalNext]_vars

(***************************************************************************)
(* StaleSpec: project C with simulation steps while the timeout of a hit   *)
(* is pending, over a restart: frames, the roll key, Restart and the       *)
(* timeouts.                                                               *)
(***************************************************************************)
MaxStaleFrames == 1   \* simulation steps that run while a timeout is pending

StaleAllowed ==
    /\ \A i \in 1..Len(timers) : timers[i] < MaxStaleFrames
    /\ gameStateRef.enemiesDefeated < 1

\* The requestAnimationFrame callback.
StaleFrame ==
    /\ mounted /\ pendingRender = "no"
    /\ isGamePaused \/ StaleAllowed
    /\ \E in \in FrameInputs(World) :
         LET w == gameLoop(World, in)
         IN  /\ Commit(w)
             /\ pendingRender' = IF Rendered(w) # Rendered(World) THEN "state" ELSE "no"
    /\ UNCHANGED <<enemiesToNextUpgrade, mousePosition, keysPressed, selections,
                   mounted, auth, otherVars>>

\* The render that follows a state update, with its call of gameLoop.
StaleRerender ==
    /\ mounted /\ pendingRender = "state"
    /\ isGamePaused \/ StaleAllowed
    /\ \E in \in FrameInputs(World) :
         LET w == gameLoop(World, in)
         IN  /\ Commit(w)
             /\ pendingRender' = IF Rendered(w) # Rendered(World) THEN "state" ELSE "no"
    /\ UNCHANGED <<enemiesToNextUpgrade, mousePosition, keysPressed, selections,
                   mounted, auth, otherVars>>

StaleKeyDown == pressKey({"Space"})

StaleNext ==
    \/ StaleFrame
    \/ StaleRerender
    \/ StaleKeyDown
    \/ handleKeyUp
    \/ restartGame
    \/ TimerFires

StaleSpec == Init /\ [][StaleNext]_vars

(***************************************************************************)
(* CollisionSpec: checkCollisions on its own, called in the state of a     *)
(* fresh session with enemies and projectiles put on a row to the right of *)
(* the player, out of the player's reach.                                  *)
(***************************************************************************)
MaxRowEnemies == 2       \* enemies on the row
MaxRowProjectiles == 2   \* projectiles on the row

EnemySpots == {160, 260}                 \* x of an enemy, y = 10
ProjectileSpots == {200, 210, 250, 300}  \* x of a projectile, y = 50

RowEnemies ==
    UNION {[1..n -> {[spawnEnemy(2, 0, 3) EXCEPT !.x = x, !.y = 10] : x \in EnemySpots}] :
             n \in 0..MaxRowEnemies}

RowProjectiles ==
    UNION {[1..n -> {[Shots(resizeCanvas(initializeGameState).player, [x |-> 1, y |-> 0], 0)[1]
                        EXCEPT !.x = x, !.y = 50] : x \in ProjectileSpots}] :
             n \in 0..MaxRowProjectiles}

checkCollisionsCall ==
    /\ \E enemies \in RowEnemies, projectiles \in RowProjectiles,
          result \in UpsertResults :
         LET w == [World EXCEPT !.gs.enemies = enemies,
                                !.gs.projectiles = projectiles]
             after == checkCollisions(w, result).gs
         IN  probe' = [op |-> "checkCollisions",
                       enemies |-> enemies, projectiles |-> projectiles,
                       after |-> [enemies |-> after.enemies,
                                  projectiles |-> after.projectiles,
                                  enemiesDefeated |-> after.enemiesDefeated,
                                  life |-> after.player.life]]
    /\ UNCHANGED <<cVars, auth, runner, puzzle, portalPuzzle>>

CollisionNext == checkCollisionsCall

CollisionSpec == Init /\ [][CollisionNext]_vars

(***************************************************************************)
(* RedirectSpec: a navigation, that is a request and the requests the      *)
(* browser makes when it follows the redirects of updateSession; the user  *)
(* of the session may change between two requests.                         *)
(***************************************************************************)
MaxRedirects == 3    \* redirects followed in one navigation

RequestPaths ==
    Pathnames \cup
    {<<"/", "A", "c", "c", "o", "u", "n", "t">>,
     <<"/", "p", "r", "o", "j", "e", "c", "t", "-", "a">>,
     <<"/", "p", "r", "o", "j", "e", "c", "t", "-", "b">>,
     SignInPath \o <<"/">>,
     AccountPrefix \o <<"/", "p", "r", "o", "f", "i", "l", "e">>,
     AccountPrefix \o <<"i", "n", "g">>,
     <<"/", "a", "b", "o", "u", "t">>,
     <<"/", "l", "e", "a", "d", "e", "r", "b", "o", "a", "r", "d">>}

\* A request of the browser for a page.
navigate ==
    /\ \E pathname \in RequestPaths, user \in {"none", "user"}, cookiesToSet \in BOOLEAN :
         auth' = [op |-> "navigate", first |-> pathname, pathname |-> pathname,
                  user |-> user, cookiesToSet |-> cookiesToSet, redirects |-> 0,
                  response |-> updateSession(pathname, user, cookiesToSet)]
    /\ UNCHANGED gameVars

\* The browser follows NextResponse.redirect(url).
followRedirect ==
    /\ auth.op = "navigate"
    /\ auth.response.kind = "redirect"
    /\ auth.redirects < MaxRedirects
    /\ \E user \in {"none", "user"}, cookiesToSet \in BOOLEAN :
         auth' = [auth EXCEPT
                    !.pathname = auth.response.pathname,
                    !.user = user,
                    !.cookiesToSet = cookiesToSet,
                    !.redirects = @ + 1,
                    !.response = updateSession(auth.response.pathname, user, cookiesToSet)]
    /\ UNCHANGED gameVars

RedirectNext == navigate \/ followRedirect

RedirectSpec == Init /\ [][RedirectNext]_vars

Next ==
    \/ FrameCallback
    \/ Rerender
    \/ handleKeyDown
    \/ handleMouseMove
    \/ handleShoot
    \/ handleUpgrade
    \/ restartGame
    \/ TimerFires

Spec == Init /\ [][Next]_vars

TypeOK ==
    /\ isGamePaused \in BOOLEAN
    /\ showUpgrade \in BOOLEAN
    /\ pendingRender \in {"no", "state"}
    /\ mounted /\ frameRef = 0 /\ auth = NoCall /\ probe = NoCall
    /\ \A i \in 1..Len(timers) : timers[i] \in 0..MaxTimerFrames
    /\ Len(gameStateRef.projectiles) <= MaxProjectiles

(***************************************************************************)
(* The claims.                                                             *)
(***************************************************************************)
Enemies == gameStateRef.enemies
Player == gameStateRef.player

\* C1: at the end of every frame the enemy collection holds no enemy that a
\* projectile has hit: a hit removes the struck enemy (the consumed
\* projectile is filtered out of the projectile collection).
C1_StruckEnemyRemoved ==
    \A i \in 1..Len(Enemies) : ~Enemies[i].struck

\* C2: an enemy struck by a projectile in a frame is not tested against the
\* player in that frame and cannot cost the player a life.
C2_StruckEnemyHarmless ==
    ~lastFrame.struckContact

\* The step is restartGame: it alone ends a pause that shows no upgrade choice.
RestartStep == isGamePaused /\ ~showUpgrade /\ ~isGamePaused'

\* C3 as stated: the state after restartGame is the state of a freshly
\* started session, with no enemies and no projectiles.
C3_RestartEqualsFresh ==
    [][RestartStep => /\ gameStateRef' = resizeCanvas(initializeGameState)
                      /\ score' = 0]_vars

\* C3 as amended: restartGame resets life, speed and the other fields of the
\* player, puts the player at the origin, empties the projectiles, resets
\* score and enemiesDefeated to 0, and replaces the enemies by ten enemies
\* that spawnEnemy has just made; nothing of this depends on the state
\* before, so that a second restart gives the same state up to the random
\* choices of spawnEnemy.
C3_RestartResets ==
    [][RestartStep =>
         /\ gameStateRef'.player.life = InitialLife
         /\ gameStateRef'.player.speed = PlayerSpeed
         /\ gameStateRef'.player.x = 0 /\ gameStateRef'.player.y = 0
         /\ gameStateRef'.player =
               [initializeGameState.player EXCEPT !.x = 0, !.y = 0]
         /\ gameStateRef'.projectiles = <<>>
         /\ gameStateRef'.score = 0 /\ score' = 0
         /\ gameStateRef'.enemiesDefeated = 0
         /\ gameStateRef'.highScore = 0
         /\ Len(gameStateRef'.enemies) = RestartEnemies
         /\ \A i \in 1..RestartEnemies :
              \E side \in SpawnSides, along \in SpawnAlong, speed \in SpawnSpeeds :
                 gameStateRef'.enemies[i] = spawnEnemy(side, along, speed)]_vars

\* A restart has just happened in a session in which an enemy was struck,
\* a life was lost and a finalization ran.
C3_Witness ==
    /\ pendingRender = "state"
    /\ ~isGamePaused /\ ~showUpgrade
    /\ Len(Enemies) = RestartEnemies
    /\ Player.life = InitialLife
    /\ outcome.upsertArg = 0
    /\ selections = 0

\* C4: the game-over finalization of handlePlayerHit runs at most once
\* between a (re)start and the next restart.
C4_GameOverOnce ==
    outcome.gameOverRuns <= 1

\* C5: the player's life is never negative.
C5_LifeNonNegative ==
    Player.life >= 0

\* C6: while the player has no life left the game is paused: nothing but
\* restartGame returns it to Running.
C6_PausedWithoutLife ==
    Player.life <= 0 => isGamePaused

\* C7: a roll key press while the game is paused leaves the player, the
\* enemies and the projectiles unchanged.
C7_PausedRollNoOp ==
    [][(isGamePaused /\ handleKeyDown) => gameStateRef' = gameStateRef]_vars

\* C8: a failing upsertScore is caught at the call site: no rejection is
\* left unhandled.
C8_UpsertFailureCaught ==
    ~outcome.unhandledRejection

\* C9: the score finalized at game over is greater than zero whenever an
\* enemy was defeated in the session.
C9_ScoreCountsHits ==
    (outcome.gameOverRuns > 0 /\ gameStateRef.enemiesDefeated > 0) => outcome.upsertArg > 0

SpawnTimes == {[num |-> InitialSpawnTime * 19 ^ n, den |-> 20 ^ n] : n \in 0..MaxSpawnTriggers}

\* C11: the spawn interval is 300 * 0.95^n; a step changes it either by a
\* spawn trigger, which multiplies it by 0.95 (19/20), appends one newly
\* spawned enemy and sets the frame counter to 0, and which happens when
\* the incremented counter has reached the interval, or by restartGame,
\* which sets it to 300; no other step changes it, so that it never grows
\* between two restarts.
C11_SpawnIntervalDecays ==
    /\ [](gameStateRef.enemySpawnTime \in SpawnTimes)
    /\ [][gameStateRef'.enemySpawnTime # gameStateRef.enemySpawnTime =>
            \/ /\ RestartStep
               /\ gameStateRef'.enemySpawnTime = [num |-> InitialSpawnTime, den |-> 1]
            \/ /\ ~RestartStep
               /\ gameStateRef'.enemySpawnTime.num = 19 * gameStateRef.enemySpawnTime.num
               /\ gameStateRef'.enemySpawnTime.den = 20 * gameStateRef.enemySpawnTime.den
               /\ (frameRef + 1) * gameStateRef.enemySpawnTime.den
                     >= gameStateRef.enemySpawnTime.num
               /\ frameRef' = 0
               /\ Len(gameStateRef'.enemies) \in 1..(Len(Enemies) + 1)
               /\ \E side \in SpawnSides, along \in SpawnAlong, speed \in SpawnSpeeds :
                     gameStateRef'.enemies[Len(gameStateRef'.enemies)]
                        = spawnEnemy(side, along, speed)]_vars
    /\ [][(gameStateRef'.enemySpawnTime = gameStateRef.enemySpawnTime /\ ~RestartStep)
             => /\ frameRef' \in {frameRef, frameRef + 1}
                /\ frameRef' * gameStateRef.enemySpawnTime.den
                     < gameStateRef.enemySpawnTime.num]_vars
    /\ [][RestartStep => /\ gameStateRef'.enemySpawnTime = [num |-> InitialSpawnTime, den |-> 1]
                         /\ frameRef' = 0]_vars

\* Two triggers have shortened the interval of a session to 300 * 0.95^2
\* and its frames are counted on.
C11_Witness ==
    /\ gameStateRef.enemySpawnTime = [num |-> InitialSpawnTime * 361, den |-> 400]
    /\ frameRef > 0
    /\ ~isGamePaused

\* C12: the player is invincible in every step of a roll: no timeout of a
\* player hit clears the invincibility that handleRoll has set.
C12_RollInvincible ==
    Player.isRolling => Player.invincible

\* C13: no life is lost while the timeout of an earlier hit of the session
\* is pending, that is within 2000 ms of that hit.
C13_NoLossInWindow ==
    [][(timers # <<>> /\ Player.life < InitialLife)
          => gameStateRef'.player.life >= Player.life]_vars

\* C14: a simulation step runs in a frame callback only: the render that
\* follows a state update, and a pointer move with its render, move no
\* enemy and no projectile.
C14_StepsOnlyInFrames ==
    [][(pendingRender = "state" \/ mousePosition' # mousePosition)
          => /\ gameStateRef'.enemies = gameStateRef.enemies
             /\ gameStateRef'.projectiles = gameStateRef.projectiles]_vars

\* C15: after the unmount of the component nothing writes to the state of
\* its session.
C15_NoWriteAfterUnmount ==
    [][~mounted => gameStateRef' = gameStateRef]_vars

WellFormedEmails ==
    {<<"a", "@", "a", ".", "a", "a">>,
     <<"a", ".", "a", "@", "a", ".", "a", ".", "a", "a">>}

\* The input of the last sign-in or sign-up fails the validation.
InvalidInput ==
    \/ auth.data.email \notin WellFormedEmails
    \/ Len(auth.data.password) < 6
    \/ auth.op \in {"signUp", "signUpSubmit"} /\ Len(auth.data.username) < 3

\* C17: for an input that fails the validation neither the submit handlers
\* nor the server actions call the auth backend; the handlers show a
\* notification and the actions return an error.
C17_InvalidInputNoBackendCall ==
    (auth.op \in {"signIn", "signUp", "signInSubmit", "signUpSubmit"} /\ InvalidInput) =>
        /\ auth.backendCalls = 0
        /\ auth.op \in {"signInSubmit", "signUpSubmit"} => auth.toasts # <<>>
        /\ auth.op \in {"signIn", "signUp"} => (auth.error # <<>> /\ auth.success = <<>>)

\* The server action signIn was called with a password of five characters.
C17_Witness ==
    /\ auth.op = "signIn"
    /\ auth.data.email \in WellFormedEmails
    /\ Len(auth.data.password) = 5
    /\ auth.backendCalls = 0
    /\ auth.error # <<>>

\* C18: when the auth backend rejects a well-formed sign-in, the sign-in
\* page shows an error notification.
C18_RejectedSignInNotified ==
    (/\ auth.op = "signInSubmit"
     /\ ~InvalidInput
     /\ auth.transport = "returns"
     /\ auth.backend = "error") => auth.toasts # <<>>

\* A step that moves the enemies and removes none of them.
PursuitStep ==
    /\ Len(Enemies) >= 1
    /\ Len(gameStateRef'.enemies) >= Len(Enemies)
    /\ gameStateRef'.enemies # Enemies
    /\ gameStateRef'.enemiesDefeated = gameStateRef.enemiesDefeated
    /\ gameStateRef'.player.life = Player.life

\* C19: in a pursuit update every enemy moves from its position straight
\* toward the centre of the player (x + width / 2, y + height / 2), by its
\* speed times the elapsed time in 60ths of a second.
C19_PursuitTowardCentre ==
    [][PursuitStep =>
         \A i \in 1..Len(Enemies) :
            LET dx == gameStateRef'.enemies[i].x - Enemies[i].x
                dy == gameStateRef'.enemies[i].y - Enemies[i].y
                tx == Player.x + Player.width \div 2 - Enemies[i].x
                ty == Player.y + Player.height \div 2 - Enemies[i].y
            IN  /\ dx * ty - dy * tx = 0
                /\ dx * tx + dy * ty >= 0
                /\ \E elapsed \in ElapsedSet :
                      dx * dx + dy * dy
                        = (Enemies[i].speed * DeltaFrames(elapsed)) * (Enemies[i].speed * DeltaFrames(elapsed))]_vars

\* C20: a projectile closer than 20.5 px (82 quarter pixels) to the centre
\* of an enemy is recorded as a hit: after a simulation step no projectile
\* is left that close to an enemy the step has tested (a newly spawned
\* enemy still stands at its spawn position).
C20_HitWithinThreshold ==
    [][(/\ Len(gameStateRef'.projectiles) <= Len(gameStateRef.projectiles)
        /\ gameStateRef'.enemies # Enemies \/ gameStateRef'.projectiles # gameStateRef.projectiles)
          => \A k \in 1..Len(gameStateRef'.projectiles), i \in 1..Len(gameStateRef'.enemies) :
                LET projectile == gameStateRef'.projectiles[k]
                    enemy == gameStateRef'.enemies[i]
                IN  enemy.x # -SpawnOffset =>
                      (projectile.x - (enemy.x + enemy.width \div 2))
                          * (projectile.x - (enemy.x + enemy.width \div 2))
                      + (projectile.y - (enemy.y + enemy.height \div 2))
                          * (projectile.y - (enemy.y + enemy.height \div 2))
                      >= 82 * 82]_vars

\* C21: a projectile keeps its angle and speed and advances along its angle
\* by speed * 60 * elapsed seconds, and so does an enemy towards the player:
\* after a span of time the displacement is speed * 60 * span, in however
\* many steps the span was covered.
C21_DisplacementBySpan ==
    probe.op = "motion" =>
        LET frames == (probe.span * 60) \div 1000
            p == probe.projectile
            p0 == probe.from.projectile
            e == probe.enemy
            e0 == probe.from.enemy
        IN  /\ p.angle = p0.angle /\ p.speed = p0.speed
            /\ p.x - p0.x = p.angle.dir.x * p.speed * frames
            /\ p.y - p0.y = p.angle.dir.y * p.speed * frames
            /\ e.x - e0.x = e.speed * frames
            /\ e.y = e0.y

\* C22: an enemy made by spawnEnemy lies outside the rectangle
\* [0, canvas.width] x [0, canvas.height], beyond one of its four edges,
\* for every canvas and every device pixel ratio.
C22_SpawnOutsideField ==
    probe.op = "spawnEnemy" =>
        LET enemy == probe.enemy
            canvas == probe.canvas
        IN  \/ enemy.x + enemy.width <= 0
            \/ enemy.x >= canvas.width
            \/ enemy.y + enemy.height <= 0
            \/ enemy.y >= canvas.height

\* C23: at the end of every simulation step the player's rectangle lies
\* inside the play-field, 0 <= x <= canvas.width - width and
\* 0 <= y <= canvas.height - height, whatever keys are held and whether or
\* not a roll is in progress.
C23_PlayerInsideField ==
    /\ 0 <= Player.x /\ Player.x <= CanvasWidth - Player.width
    /\ 0 <= Player.y /\ Player.y <= CanvasHeight - Player.height

\* A roll to the right with the key held has been stopped at the right edge.
C23_Witness ==
    /\ Player.isRolling /\ Player.rollDistance > 0
    /\ Player.rollDirection.x > 0
    /\ "ArrowRight" \in keysPressed
    /\ Player.x = CanvasWidth - Player.width

\* C24: while a roll is in progress the keys held do not move the player:
\* a simulation step displaces the player by rollDirection * rollSpeed *
\* normalized elapsed time only (within the play-field), and ends the roll
\* when the accumulated distance reaches maxRollDistance.
C24_RollOverridesMovement ==
    [][(Player.isRolling /\ keysPressed' = keysPressed) =>
          \E elapsed \in ElapsedSet :
              Player' = checkBoundaryCollisions(updateRoll(Player, DeltaFrames(elapsed)))]_vars

\* C25: the best score kept in the cookie is written only on a new high
\* score: over page loads, games and restarts the stored value never
\* decreases.
C25_StoredBestNeverDecreases ==
    [][runner'.cookie >= runner.cookie]_vars

\* C26: in the block puzzle currentStep is 1 plus the number of accepted
\* clicks, a click is accepted only on a block whose solution contains the
\* current step, a double block accepts exactly its two steps (4 and 9,
\* 6 and 10), and the final block is accepted only at step 14.
C26_CorrectSequence ==
    /\ puzzle.currentStep = 1 + puzzle.accepted
    /\ puzzle.click.index > 0 =>
         LET block == Blocks[puzzle.click.index]
             own == Contains(block.solution, puzzle.click.step)
         IN  /\ puzzle.click.accepted => own
             /\ block.type = "double" => (puzzle.click.accepted <=> own)
             /\ (block.type = "final" /\ puzzle.click.accepted) => puzzle.click.step = 14

\* C27: awaitingPortal is true exactly when currentStep is 8, and while it
\* is true a click on a block that is not a portal, or on the portal that
\* was entered, costs one life and leaves currentStep unchanged.
C27_AwaitingPortal ==
    /\ portalPuzzle.awaitingPortal <=> portalPuzzle.currentStep = 8
    /\ (/\ portalPuzzle.click.index > 0
        /\ portalPuzzle.click.awaiting
        /\ \/ Blocks[portalPuzzle.click.index].type # "portal"
           \/ Blocks[portalPuzzle.click.index].solution = <<7>>)
       => /\ ~portalPuzzle.click.accepted
          /\ portalPuzzle.lives = portalPuzzle.click.lives - 1
          /\ portalPuzzle.currentStep = portalPuzzle.click.step

C27_Witness ==
    /\ portalPuzzle.awaitingPortal
    /\ portalPuzzle.click.awaiting
    /\ portalPuzzle.click.index > 0
    /\ Blocks[portalPuzzle.click.index].type = "double"
    /\ portalPuzzle.lives = 2
    /\ ~portalPuzzle.gameOver

\* C28: in project A the speed by which a frame scrolls the coins and the
\* obstacles (the enemies: that speed plus 2) is the game speed the frame
\* starts with, and the game speed never goes below 1.
C28_ScrollSpeedIsGameSpeed ==
    /\ runner.lastStep.ran => runner.lastStep.applied = runner.lastStep.current
    /\ runner.gameSpeed >= MinGameSpeed

\* C29: in project A a simulation step is never taken while the countdown
\* is active, at most one loop runs, and a restart leads to the countdown
\* with the entities cleared and distance, coins and speed reset.
C29_StepsOnlyAfterCountdown ==
    [][/\ runner'.lastStep.ran => ~runner'.isCountdownActive
       /\ Len(runner'.loops) <= 1
       /\ (runner.isGameOver /\ ~runner'.isGameOver) =>
             /\ runner'.isCountdownActive /\ runner'.countdown = "3"
             /\ runner'.coins = <<>> /\ runner'.enemies = <<>>
             /\ runner'.obstacles = <<>>
             /\ runner'.distance = 0 /\ runner'.coinsCollected = 0
             /\ runner'.gameSpeed = InitialGameSpeed]_vars

\* C30: in project A resetGame runs at most once for a game session: not
\* twice in one frame, and not again before the game is restarted.
C30_ResetOncePerSession ==
    runner.resetRuns <= 1

\* C31: in the block puzzle a restart resets the state whatever was played
\* before: every block is unactivated, each double block holds both of its
\* steps again, and currentStep is 1.
C31_RestartResets ==
    [][(puzzle.gameOver /\ ~puzzle'.gameOver) =>
          /\ puzzle'.gameState = Blocks
          /\ puzzle'.currentStep = 1]_vars

\* C32: the timeout of a hit of an earlier session does not change the
\* invincible flag of the player that restartGame has created.  A player
\* without upgrade has lost InitialLife - life lives, each with one timeout:
\* when more timeouts are pending, the oldest is of an earlier session.
C32_StaleTimerHarmless ==
    [][(/\ Len(timers') < Len(timers)
        /\ Player.upgrades = 0
        /\ Len(timers) > InitialLife - Player.life)
          => gameStateRef'.player.invincible = Player.invincible]_vars

\* C33: the defeated-enemy counter counts the enemies that projectile hits
\* have removed from the enemy collection, each enemy at most once, also
\* when several projectiles are within hit distance in the same frame.
C33_DefeatedCountsRemoved ==
    probe.op = "checkCollisions" =>
        /\ probe.after.life = InitialLife
        /\ probe.after.enemiesDefeated =
              Len(probe.enemies) - Len(probe.after.enemies)

\* C34: restartGame resets the progression: after a restart the upgrade
\* threshold is its initial value 10 again.
C34_RestartResetsThreshold ==
    [][RestartStep => enemiesToNextUpgrade' = InitialThreshold]_vars

\* C35: in the block puzzle with lives 0 <= lives <= 3 always holds; a click
\* that is not accepted takes exactly one life and changes neither
\* currentStep nor a block, gameOver is set when lives reaches 0, and while
\* gameOver stays set lives, currentStep and the blocks do not change.
C35_LivesBounded ==
    [][/\ portalPuzzle'.lives \in 0..3
       /\ (/\ portalPuzzle'.click # portalPuzzle.click
           /\ portalPuzzle'.click.index > 0
           /\ ~portalPuzzle'.click.accepted)
          => /\ portalPuzzle'.lives = portalPuzzle.lives - 1
             /\ portalPuzzle'.currentStep = portalPuzzle.currentStep
             /\ portalPuzzle'.gameState = portalPuzzle.gameState
             /\ portalPuzzle'.gameOver <=> portalPuzzle'.lives = 0
       /\ (portalPuzzle.gameOver /\ portalPuzzle'.gameOver)
          => /\ portalPuzzle'.lives = portalPuzzle.lives
             /\ portalPuzzle'.currentStep = portalPuzzle.currentStep
             /\ portalPuzzle'.gameState = portalPuzzle.gameState]_vars

C35_Witness ==
    /\ portalPuzzle.lives = 0
    /\ portalPuzzle.gameOver
    /\ portalPuzzle.click.index > 0
    /\ ~portalPuzzle.click.accepted
    /\ portalPuzzle.click.lives = 1
    /\ portalPuzzle.currentStep > 1

\* C36: in project A at most one loop of frame callbacks is live at any
\* time: a loop whose next callback will go on (isGameOverRef is false)
\* never has a second loop next to it.
C36_OneLiveLoop ==
    ~runner.isGameOverRef => Len(runner.loops) <= 1

\* C37: the session guard makes no redirect loop: the request for the
\* redirect target /account/sign-in is never redirected, so a navigation
\* gets a response that is not a redirect after at most one redirect.
C37_NoRedirectLoop ==
    auth.op = "navigate" =>
        /\ auth.redirects <= 1
        /\ auth.redirects = 1 =>
              /\ auth.pathname = SignInPath
              /\ auth.response.kind = "next"

\* A request without a user for a page of a game has been redirected and
\* the request for the sign-in page, still without a user, has been served.
C37_Witness ==
    /\ auth.op = "navigate"
    /\ auth.first = <<"/", "p", "r", "o", "j", "e", "c", "t", "-", "a">>
    /\ auth.redirects = 1
    /\ auth.user = "none"
    /\ auth.response.kind = "next"

====
